---- MODULE Spec2Model ----
(***************************************************************************)
(* Appointment booking of the tailoring-shop backend (FastAPI handlers of  *)
(* backend/app/api/appointments.py over the Appointment table).            *)
(*                                                                         *)
(* Times are minutes of one calendar day (600 = 10:00).  A field that is   *)
(* NULL in the database holds the string "None".  A handler's response is  *)
(* held in `last` until it is handed back to the client; handler steps are *)
(* taken one at a time, so every interleaving of their database effects is *)
(* kept.                                                                   *)
(***************************************************************************)
EXTENDS Integers, Sequences, FiniteSets, TLC

(* ------------------------------ bounds -------------------------------- *)
MaxAppts == 2
NumReqs == 2
MaxReschedules == 1
MaxAvailability == 2

(* ------------------------------ inputs -------------------------------- *)
Customers == {1, 2}
Tailors == {3, 4}
\* the tailor of the specifications that follow one tailor's appointments
OneTailor == {3}
Admins == {5}
Staff == {6}
UserIds == Customers \cup Tailors \cup Admins \cup Staff
\* users that book in the model (create_appointment accepts any role)
BookingUsers == {1}
\* users that call the other handlers in the model: the booking customer and
\* the tailor; the handlers treat every other user as one of these two or
\* reject the call, which changes nothing
Callers == {1, 3}
\* callers of the two status routes: those, and a tailor who is not the
\* tailor of the appointments
StatusCallers == {1, 3, 4}
BranchIds == {1}
Times == {600, 615, 630}
\* the calendar dates of get_availability: day 0, a Monday, on which every
\* appointment of the model lies, and the day after
Dates == {0, 1}
DaysOfWeek == {"monday", "tuesday"}
\* working hours and slot lengths (TailorAvailabilityBase allows 15..120)
StartTimes == {600}
\* a working day that begins after the earliest bookable time
LateStartTimes == {615}
EndTimes == {645, 660}
SlotDurations == {30}
Durations == {30}
Reasons == {"", "reason"}
\* an optional field of AppointmentUpdate that the request leaves out (None)
Unset == 0
ReqIds == 1..NumReqs
OneRequest == {1}
ApptIds == 1..MaxAppts
MinutesPerDay == 1440

role(u) ==
    IF u \in Customers THEN "customer"
    ELSE IF u \in Tailors THEN "tailor"
    ELSE IF u \in Admins THEN "admin"
    ELSE "staff"

is_customer(u) == role(u) = "customer"
is_tailor(u) == role(u) = "tailor"
is_admin(u) == role(u) = "admin"
is_staff(u) == role(u) = "staff"

AppointmentStatus ==
    {"pending", "confirmed", "in_progress", "completed", "cancelled",
     "rescheduled", "no_show"}

\* the status list of the conflict query and of the availability query
LiveStatuses == {"pending", "confirmed", "in_progress"}

\* can_reschedule written as is_active: everything but the terminal statuses
can_reschedule_is_active(a) ==
    a.status \notin {"cancelled", "completed", "no_show"}

can_reschedule(a) == a.status \in {"pending", "confirmed"}

\* can_cancel written as is_active: everything but the terminal statuses
can_cancel_is_active(a) ==
    a.status \notin {"cancelled", "completed", "no_show"}

can_cancel(a) == a.status \in {"pending", "confirmed"}

HTTP_200_OK == 200
HTTP_201_CREATED == 201
HTTP_400_BAD_REQUEST == 400
HTTP_403_FORBIDDEN == 403
HTTP_404_NOT_FOUND == 404
HTTP_409_CONFLICT == 409
HTTP_422_UNPROCESSABLE_ENTITY == 422
HTTP_500_INTERNAL_SERVER_ERROR == 500

(* ------------------------------- state -------------------------------- *)
VARIABLES
    appointments,   \* the appointments table; the primary key is the index
    row_lock,       \* users row -> request holding its FOR UPDATE lock, or 0
    reqs,           \* in-flight create_appointment requests
    last,           \* the response being handed back, or NoCall
    tailor_availability  \* the tailor_availability table

vars == <<appointments, row_lock, reqs, last, tailor_availability>>

IdleReq ==
    [pc |-> "idle", user |-> 0, tailor_id |-> 0, branch_id |-> 0,
     scheduled_date |-> 0, duration_minutes |-> 0, new_id |-> 0]

NoCall ==
    [op |-> "None", code |-> 0, detail |-> "None", args |-> <<>>,
     slots |-> <<>>]

Response(op, code, detail) ==
    [op |-> op, code |-> code, detail |-> detail, args |-> <<>>,
     slots |-> <<>>]

Init ==
    /\ appointments = <<>>
    /\ row_lock = [u \in UserIds |-> 0]
    /\ reqs = [r \in ReqIds |-> IdleReq]
    /\ last = NoCall
    /\ tailor_availability = <<>>

Exists(id) == id \in 1..Len(appointments)

\* requests that have begun and not yet committed or been rejected
InFlight == {r \in ReqIds : reqs[r].pc \in {"locked", "checked"}}

\* the response in `last` goes back to the client
send_response ==
    /\ last # NoCall
    /\ last' = NoCall
    /\ UNCHANGED <<appointments, row_lock, reqs, tailor_availability>>

(* --------------------------- create_appointment ------------------------ *)
\* the lock step without FOR UPDATE: a plain SELECT, which waits for nothing
create_appointment_lock_plain_select(r, u, t, b, sd, dm) ==
    /\ last = NoCall
    /\ UNCHANGED tailor_availability
    /\ reqs[r].pc = "idle"
    /\ Len(appointments) + Cardinality(InFlight) < MaxAppts
    /\ row_lock' = [row_lock EXCEPT ![t] = r]
    /\ reqs' = [reqs EXCEPT ![r] =
                    [IdleReq EXCEPT !.pc = "locked", !.user = u,
                                    !.tailor_id = t, !.branch_id = b,
                                    !.scheduled_date = sd,
                                    !.duration_minutes = dm]]
    /\ UNCHANGED <<appointments, last>>

\* the lock taken on the whole users table instead of the tailor's row
create_appointment_lock_table_lock(r, u, t, b, sd, dm) ==
    /\ last = NoCall
    /\ UNCHANGED tailor_availability
    /\ reqs[r].pc = "idle"
    /\ Len(appointments) + Cardinality(InFlight) < MaxAppts
    /\ \A t2 \in Tailors : row_lock[t2] = 0
    /\ row_lock' = [row_lock EXCEPT ![t] = r]
    /\ reqs' = [reqs EXCEPT ![r] =
                    [IdleReq EXCEPT !.pc = "locked", !.user = u,
                                    !.tailor_id = t, !.branch_id = b,
                                    !.scheduled_date = sd,
                                    !.duration_minutes = dm]]
    /\ UNCHANGED <<appointments, last>>

\* SELECT users ... FOR UPDATE: waits while another transaction holds the row
create_appointment_lock(r, u, t, b, sd, dm) ==
    /\ last = NoCall
    /\ UNCHANGED tailor_availability
    /\ reqs[r].pc = "idle"
    /\ Len(appointments) + Cardinality(InFlight) < MaxAppts
    /\ row_lock[t] = 0
    /\ row_lock' = [row_lock EXCEPT ![t] = r]
    /\ reqs' = [reqs EXCEPT ![r] =
                    [IdleReq EXCEPT !.pc = "locked", !.user = u,
                                    !.tailor_id = t, !.branch_id = b,
                                    !.scheduled_date = sd,
                                    !.duration_minutes = dm]]
    /\ UNCHANGED <<appointments, last>>

\* the conflict query without its status filter
conflict_query_any_status(t, sd) ==
    {i \in 1..Len(appointments) :
        /\ appointments[i].tailor_id = t
        /\ appointments[i].scheduled_date = sd}

\* rows the conflict query selects
conflict_query(t, sd) ==
    {i \in 1..Len(appointments) :
        /\ appointments[i].tailor_id = t
        /\ appointments[i].scheduled_date = sd
        /\ appointments[i].status \in LiveStatuses}

\* the new row written with status CONFIRMED instead of PENDING
new_appointment_confirmed(rq) ==
    [customer_id |-> rq.user,
     tailor_id |-> rq.tailor_id,
     branch_id |-> rq.branch_id,
     scheduled_date |-> rq.scheduled_date,
     duration_minutes |-> rq.duration_minutes,
     status |-> "confirmed",
     reschedule_count |-> 0,
     cancellation_reason |-> "None",
     cancelled_at |-> "None",
     completed_at |-> "None"]

\* Appointment(customer_id=current_user.id, ..., status=PENDING); the other
\* columns take their defaults
new_appointment(rq) ==
    [customer_id |-> rq.user,
     tailor_id |-> rq.tailor_id,
     branch_id |-> rq.branch_id,
     scheduled_date |-> rq.scheduled_date,
     duration_minutes |-> rq.duration_minutes,
     status |-> "pending",
     reschedule_count |-> 0,
     cancellation_reason |-> "None",
     cancelled_at |-> "None",
     completed_at |-> "None"]

\* the conflict check after db.add and a flush-and-commit: the row is
\* written before the 409 is raised
create_appointment_check_after_insert(r) ==
    /\ last = NoCall
    /\ UNCHANGED tailor_availability
    /\ reqs[r].pc = "locked"
    /\ LET hits == conflict_query(reqs[r].tailor_id, reqs[r].scheduled_date)
       IN  IF hits = {}
           THEN /\ reqs' = [reqs EXCEPT ![r].pc = "checked"]
                /\ UNCHANGED <<row_lock, last, appointments>>
           ELSE /\ reqs' = [reqs EXCEPT ![r] = IdleReq]
                /\ row_lock' = [row_lock EXCEPT ![reqs[r].tailor_id] = 0]
                /\ appointments' =
                        Append(appointments, new_appointment(reqs[r]))
                /\ last' = Response("create_appointment",
                                    HTTP_409_CONFLICT, "None")

\* scalar_one_or_none on the conflict query: no row, one row (409), or
\* MultipleResultsFound, which nothing catches
create_appointment_check(r) ==
    /\ last = NoCall
    /\ UNCHANGED tailor_availability
    /\ reqs[r].pc = "locked"
    /\ LET hits == conflict_query(reqs[r].tailor_id, reqs[r].scheduled_date)
       IN  IF hits = {}
           THEN /\ reqs' = [reqs EXCEPT ![r].pc = "checked"]
                /\ UNCHANGED <<row_lock, last>>
           ELSE \* the request ends; closing the session releases the lock
                /\ reqs' = [reqs EXCEPT ![r] = IdleReq]
                /\ row_lock' = [row_lock EXCEPT ![reqs[r].tailor_id] = 0]
                /\ last' = Response("create_appointment",
                                    IF Cardinality(hits) = 1
                                    THEN HTTP_409_CONFLICT
                                    ELSE HTTP_500_INTERNAL_SERVER_ERROR,
                                    "None")
    /\ UNCHANGED appointments

\* db.add(new_appointment); await db.commit(): the row becomes visible and
\* the transaction's row lock is released
create_appointment_commit(r) ==
    /\ last = NoCall
    /\ UNCHANGED tailor_availability
    /\ reqs[r].pc = "checked"
    /\ appointments' = Append(appointments, new_appointment(reqs[r]))
    /\ row_lock' = [row_lock EXCEPT ![reqs[r].tailor_id] = 0]
    /\ reqs' = [reqs EXCEPT ![r] =
                    [IdleReq EXCEPT !.pc = "committed",
                                    !.new_id = Len(appointments) + 1]]
    /\ UNCHANGED last

\* how send_appointment_confirmation can end: normally, or raising from the
\* commit of either create_notification or of either send_notification
NotifyOutcomes ==
    {"ok", "raise_email_create", "raise_email_send",
     "raise_in_app_create", "raise_in_app_send"}

\* the handler without its try/except: a raising notification is a 500
create_appointment_result_unguarded(outcome) ==
    IF outcome = "ok" THEN HTTP_201_CREATED
    ELSE HTTP_500_INTERNAL_SERVER_ERROR

\* try: ... except Exception: print(...); return new_appointment
create_appointment_result(outcome) == HTTP_201_CREATED

\* the notification, then the response
create_appointment_notify(r, outcome) ==
    /\ last = NoCall
    /\ UNCHANGED tailor_availability
    /\ reqs[r].pc = "committed"
    /\ reqs' = [reqs EXCEPT ![r] = IdleReq]
    /\ last' = Response("create_appointment",
                        create_appointment_result(outcome), outcome)
    /\ UNCHANGED <<appointments, row_lock>>

\* await notification_service.send_appointment_confirmation(...): the
\* handler calls the collaborator and is suspended until it completes
create_appointment_await(r) ==
    /\ last = NoCall
    /\ reqs[r].pc = "committed"
    /\ reqs' = [reqs EXCEPT ![r].pc = "notifying"]
    /\ UNCHANGED <<appointments, row_lock, last, tailor_availability>>

\* the collaborator completes, returning or raising; the handler resumes
\* and returns new_appointment
create_appointment_return(r, outcome) ==
    /\ last = NoCall
    /\ reqs[r].pc = "notifying"
    /\ reqs' = [reqs EXCEPT ![r] = IdleReq]
    /\ last' = Response("create_appointment",
                        create_appointment_result(outcome), outcome)
    /\ UNCHANGED <<appointments, row_lock, tailor_availability>>

(* --------------------------- update_appointment ------------------------ *)
\* PUT /appointments/{id}; sd and dm are Unset when the field is not sent.
\* The response code, then the table the handler commits.
update_appointment_code(u, id, sd, dm) ==
    IF ~Exists(id) THEN HTTP_404_NOT_FOUND
    ELSE IF is_customer(u) /\ appointments[id].customer_id # u
    THEN HTTP_403_FORBIDDEN
    ELSE HTTP_200_OK

update_appointment_rows(u, id, sd, dm) ==
    IF update_appointment_code(u, id, sd, dm) # HTTP_200_OK THEN appointments
    ELSE [appointments EXCEPT
            ![id].scheduled_date = IF sd # Unset THEN sd ELSE @,
            ![id].duration_minutes = IF dm # Unset THEN dm ELSE @]

update_appointment(u, id, sd, dm) ==
    /\ last = NoCall
    /\ UNCHANGED tailor_availability
    /\ appointments' = update_appointment_rows(u, id, sd, dm)
    /\ UNCHANGED <<row_lock, reqs, last>>

(* ------------------------ update_appointment_status -------------------- *)
update_appointment_status_code(u, id, st) ==
    IF ~(is_tailor(u) \/ is_admin(u) \/ is_staff(u)) THEN HTTP_403_FORBIDDEN
    ELSE IF ~Exists(id) THEN HTTP_404_NOT_FOUND
    ELSE HTTP_200_OK

update_appointment_status_rows(u, id, st) ==
    IF update_appointment_status_code(u, id, st) # HTTP_200_OK
    THEN appointments
    ELSE [appointments EXCEPT
            ![id].status = st,
            ![id].completed_at = IF st = "completed" THEN "utcnow" ELSE @]

update_appointment_status(u, id, st) ==
    /\ last = NoCall
    /\ UNCHANGED tailor_availability
    /\ appointments' = update_appointment_status_rows(u, id, st)
    /\ UNCHANGED <<row_lock, reqs, last>>

(* ----------------- update_appointment_status (tailor route) ------------- *)
\* PATCH /tailor/appointments/{id}/status, behind require_role(["tailor"]);
\* the status is a query string, turned into AppointmentStatus(status)
StatusStrings == AppointmentStatus \cup {"done"}

tailor_update_appointment_status_code(u, id, st) ==
    IF ~is_tailor(u) THEN HTTP_403_FORBIDDEN
    ELSE IF ~Exists(id) THEN HTTP_404_NOT_FOUND
    ELSE IF appointments[id].tailor_id # u THEN HTTP_403_FORBIDDEN
    ELSE IF st \notin AppointmentStatus THEN HTTP_400_BAD_REQUEST
    ELSE HTTP_200_OK

tailor_update_appointment_status_rows(u, id, st) ==
    IF tailor_update_appointment_status_code(u, id, st) # HTTP_200_OK
    THEN appointments
    ELSE [appointments EXCEPT ![id].status = st]

tailor_update_appointment_status(u, id, st) ==
    /\ last = NoCall
    /\ UNCHANGED tailor_availability
    /\ appointments' = tailor_update_appointment_status_rows(u, id, st)
    /\ UNCHANGED <<row_lock, reqs, last>>

(* -------------------------- reschedule_appointment --------------------- *)
\* POST /appointments/{id}/reschedule. The response code, the table the
\* handler commits, and the handler; its 400 is kept in `last`.
reschedule_appointment_code(u, id, nd) ==
    IF ~Exists(id) THEN HTTP_404_NOT_FOUND
    ELSE IF ~can_reschedule(appointments[id]) THEN HTTP_400_BAD_REQUEST
    ELSE IF is_customer(u) /\ appointments[id].customer_id # u
    THEN HTTP_403_FORBIDDEN
    ELSE HTTP_200_OK

\* rescheduling by closing the row and booking a new one at the new time
reschedule_appointment_rows_new_row(u, id, nd) ==
    IF reschedule_appointment_code(u, id, nd) # HTTP_200_OK THEN appointments
    ELSE Append([appointments EXCEPT ![id].status = "rescheduled"],
                [appointments[id] EXCEPT !.scheduled_date = nd,
                                         !.status = "pending",
                                         !.reschedule_count = @ + 1])

reschedule_appointment_rows(u, id, nd) ==
    IF reschedule_appointment_code(u, id, nd) # HTTP_200_OK THEN appointments
    ELSE [appointments EXCEPT
            ![id].scheduled_date = nd,
            ![id].status = "rescheduled",
            ![id].reschedule_count = @ + 1]

reschedule_appointment(u, id, nd) ==
    /\ last = NoCall
    /\ UNCHANGED tailor_availability
    /\ reschedule_appointment_code(u, id, nd) = HTTP_200_OK
            => appointments[id].reschedule_count < MaxReschedules
    /\ appointments' = reschedule_appointment_rows(u, id, nd)
    /\ last' = IF reschedule_appointment_code(u, id, nd) = HTTP_400_BAD_REQUEST
               THEN Response("reschedule_appointment",
                             HTTP_400_BAD_REQUEST, "None")
               ELSE last
    /\ UNCHANGED <<row_lock, reqs>>

(* ---------------------------- cancel_appointment ----------------------- *)
\* POST /appointments/{id}/cancel; its 400 is kept in `last`.
\* AppointmentCancel.cancellation_reason: min_length=1
cancel_appointment_code(u, id, reason) ==
    IF reason = "" THEN HTTP_422_UNPROCESSABLE_ENTITY
    ELSE IF ~Exists(id) THEN HTTP_404_NOT_FOUND
    ELSE IF ~can_cancel(appointments[id]) THEN HTTP_400_BAD_REQUEST
    ELSE IF is_customer(u) /\ appointments[id].customer_id # u
    THEN HTTP_403_FORBIDDEN
    ELSE HTTP_200_OK

cancel_appointment_rows(u, id, reason) ==
    IF cancel_appointment_code(u, id, reason) # HTTP_200_OK THEN appointments
    ELSE [appointments EXCEPT
            ![id].status = "cancelled",
            ![id].cancellation_reason = reason,
            ![id].cancelled_at = "utcnow"]

cancel_appointment(u, id, reason) ==
    /\ last = NoCall
    /\ UNCHANGED tailor_availability
    /\ appointments' = cancel_appointment_rows(u, id, reason)
    /\ last' = IF cancel_appointment_code(u, id, reason) = HTTP_400_BAD_REQUEST
               THEN Response("cancel_appointment",
                             HTTP_400_BAD_REQUEST, "None")
               ELSE last
    /\ UNCHANGED <<row_lock, reqs>>

(* ------------------------ create_tailor_availability ------------------- *)
\* POST /branches/availability, behind require_role(["admin", "staff"])
create_tailor_availability_code(u) ==
    IF role(u) \notin {"admin", "staff"} THEN HTTP_403_FORBIDDEN
    ELSE HTTP_201_CREATED

new_availability(t, b, day, st, et, sdm) ==
    [tailor_id |-> t, branch_id |-> b, day_of_week |-> day,
     start_time |-> st, end_time |-> et, slot_duration_minutes |-> sdm,
     is_active |-> TRUE]

create_tailor_availability(u, t, b, day, st, et, sdm) ==
    /\ last = NoCall
    /\ Len(tailor_availability) < MaxAvailability
    /\ tailor_availability' =
            IF create_tailor_availability_code(u) = HTTP_201_CREATED
            THEN Append(tailor_availability,
                        new_availability(t, b, day, st, et, sdm))
            ELSE tailor_availability
    /\ UNCHANGED <<appointments, row_lock, reqs, last>>

(* --------------- update_tailor_availability (branches route) ----------- *)
\* PUT /branches/availability/{id}, behind require_role(["admin", "staff"]);
\* upd holds the fields the request sets (model_dump(exclude_unset=True))
AvailabilityUpdates ==
    {[end_time |-> 615], [is_active |-> FALSE], [is_active |-> TRUE],
     [end_time |-> 660, is_active |-> TRUE]}

update_tailor_availability_code(u, id) ==
    IF role(u) \notin {"admin", "staff"} THEN HTTP_403_FORBIDDEN
    ELSE IF id \notin 1..Len(tailor_availability) THEN HTTP_404_NOT_FOUND
    ELSE HTTP_200_OK

\* for field, value in update_data.items(): setattr(availability, ...)
update_tailor_availability_rows(u, id, upd) ==
    IF update_tailor_availability_code(u, id) # HTTP_200_OK
    THEN tailor_availability
    ELSE [tailor_availability EXCEPT
            ![id] = [f \in DOMAIN @ |->
                        IF f \in DOMAIN upd THEN upd[f] ELSE @[f]]]

update_tailor_availability(u, id, upd) ==
    /\ last = NoCall
    /\ tailor_availability' = update_tailor_availability_rows(u, id, upd)
    /\ UNCHANGED <<appointments, row_lock, reqs, last>>

(* ---------------- update_tailor_availability (tailor route) ------------ *)
\* POST /tailor/availability, behind require_role(["tailor"]): a list of
\* {day_of_week, start_time, end_time, is_active}; times are "HH:MM"
\* strings, held here as <<HH, MM>>
SettingsInputs ==
    {[day_of_week |-> "monday", start_time |-> <<10, 0>>,
      end_time |-> <<10, 45>>, is_active |-> TRUE],
     [day_of_week |-> "monday", start_time |-> <<10, 0>>,
      end_time |-> <<11, 0>>, is_active |-> FALSE],
     [day_of_week |-> "tuesday", start_time |-> <<10, 0>>,
      end_time |-> <<10, 15>>, is_active |-> TRUE],
     [day_of_week |-> "", start_time |-> <<10, 0>>,
      end_time |-> <<11, 0>>, is_active |-> TRUE],
     [day_of_week |-> "monday", start_time |-> <<10, 0>>,
      end_time |-> <<25, 0>>, is_active |-> TRUE]}

MaxSettings == 2

SettingsLists ==
    UNION {[1..n -> SettingsInputs] : n \in 1..MaxSettings}

\* h, m = map(int, s.split(':')[:2]); time(h, m) raises outside 0..23, 0..59
time_ok(hm) == hm[1] \in 0..23 /\ hm[2] \in 0..59
time_of(hm) == hm[1] * 60 + hm[2]

\* the loop over settings on the rows of the session: the code reached
\* and the rows the session then holds
RECURSIVE apply_settings(_, _, _)
apply_settings(rows, u, settings) ==
    IF settings = <<>> THEN [code |-> HTTP_200_OK, rows |-> rows]
    ELSE LET setting == Head(settings)
             existing == {k \in 1..Len(rows) :
                            /\ rows[k].tailor_id = u
                            /\ rows[k].day_of_week = setting.day_of_week}
         IN  IF setting.day_of_week = ""
             THEN apply_settings(rows, u, Tail(settings))
             ELSE IF Cardinality(existing) > 1
             THEN [code |-> HTTP_500_INTERNAL_SERVER_ERROR, rows |-> rows]
             ELSE IF ~(time_ok(setting.start_time) /\ time_ok(setting.end_time))
             THEN [code |-> HTTP_400_BAD_REQUEST, rows |-> rows]
             ELSE IF existing # {}
             THEN apply_settings(
                    [rows EXCEPT
                        ![CHOOSE k \in existing : TRUE] =
                            [@ EXCEPT
                                !.start_time = time_of(setting.start_time),
                                !.end_time = time_of(setting.end_time),
                                !.is_active = setting.is_active]],
                    u, Tail(settings))
             ELSE apply_settings(
                    Append(rows,
                           [tailor_id |-> u, branch_id |-> 1,
                            day_of_week |-> setting.day_of_week,
                            start_time |-> time_of(setting.start_time),
                            end_time |-> time_of(setting.end_time),
                            slot_duration_minutes |-> 30,
                            is_active |-> setting.is_active]),
                    u, Tail(settings))

bulk_update_tailor_availability_code(u, settings) ==
    IF ~is_tailor(u) THEN HTTP_403_FORBIDDEN
    ELSE apply_settings(tailor_availability, u, settings).code

\* await db.commit() after the loop; nothing is committed when it raised
bulk_update_tailor_availability_rows(u, settings) ==
    IF bulk_update_tailor_availability_code(u, settings) # HTTP_200_OK
    THEN tailor_availability
    ELSE apply_settings(tailor_availability, u, settings).rows

bulk_update_tailor_availability(u, settings) ==
    /\ last = NoCall
    /\ Len(bulk_update_tailor_availability_rows(u, settings))
            <= MaxAvailability
    /\ tailor_availability' = bulk_update_tailor_availability_rows(u, settings)
    /\ UNCHANGED <<appointments, row_lock, reqs, last>>

(* ------------------------------ get_availability ----------------------- *)
\* date.strftime("%A").lower()
day_name(date) == IF date = 0 THEN "monday" ELSE "tuesday"

\* datetime.combine(date.date(), t)
combine(date, t) == date * MinutesPerDay + t

\* the availability lookup without its is_active filter
availability_query_any_row(t, b, date) ==
    {k \in 1..Len(tailor_availability) :
        /\ tailor_availability[k].tailor_id = t
        /\ tailor_availability[k].branch_id = b
        /\ tailor_availability[k].day_of_week = day_name(date)}

\* rows of the availability lookup
availability_query(t, b, date) ==
    {k \in 1..Len(tailor_availability) :
        /\ tailor_availability[k].tailor_id = t
        /\ tailor_availability[k].branch_id = b
        /\ tailor_availability[k].day_of_week = day_name(date)
        /\ tailor_availability[k].is_active}

\* rows of the "existing appointments" query
existing_appointments(t, start_time, end_time) ==
    {i \in 1..Len(appointments) :
        /\ appointments[i].tailor_id = t
        /\ appointments[i].scheduled_date >= start_time
        /\ appointments[i].scheduled_date < end_time
        /\ appointments[i].status \in LiveStatuses}

\* the overlap test with closed intervals: touching endpoints conflict
slot_taken_closed(current_slot, slot_end, existing) ==
    \E i \in existing :
        LET app_start == appointments[i].scheduled_date
            app_end == app_start + appointments[i].duration_minutes
        IN  current_slot <= app_end /\ slot_end >= app_start

\* the overlap test of the slot loop
slot_taken(current_slot, slot_end, existing) ==
    \E i \in existing :
        LET app_start == appointments[i].scheduled_date
            app_end == app_start + appointments[i].duration_minutes
        IN  current_slot < app_end /\ slot_end > app_start

\* the slot loop leaving buffer_time_minutes (default 10) between slots
RECURSIVE generate_slots_with_buffer(_, _, _, _, _)
generate_slots_with_buffer(current_slot, end_time, slot_duration, t, existing) ==
    IF current_slot < end_time
    THEN LET slot_end == current_slot + slot_duration
         IN  <<[start_time |-> current_slot, end_time |-> slot_end,
                tailor_id |-> t,
                is_available |-> ~slot_taken(current_slot, slot_end,
                                             existing)]>>
             \o generate_slots_with_buffer(slot_end + 10, end_time,
                                           slot_duration, t, existing)
    ELSE <<>>

\* the slot loop: while current_slot < end_time
RECURSIVE generate_slots(_, _, _, _, _)
generate_slots(current_slot, end_time, slot_duration, t, existing) ==
    IF current_slot < end_time
    THEN LET slot_end == current_slot + slot_duration
         IN  <<[start_time |-> current_slot, end_time |-> slot_end,
                tailor_id |-> t,
                is_available |-> ~slot_taken(current_slot, slot_end,
                                             existing)]>>
             \o generate_slots(slot_end, end_time, slot_duration, t, existing)
    ELSE <<>>

\* scalar_one_or_none on the availability lookup: MultipleResultsFound with
\* more than one row
get_availability_code(t, b, date) ==
    IF Cardinality(availability_query(t, b, date)) > 1
    THEN HTTP_500_INTERNAL_SERVER_ERROR
    ELSE HTTP_200_OK

\* available_slots of the response
get_availability_slots(t, b, date) ==
    LET found == availability_query(t, b, date)
    IN  IF Cardinality(found) # 1 THEN <<>>
        ELSE LET av == tailor_availability[CHOOSE k \in found : TRUE]
                 start_time == combine(date, av.start_time)
                 end_time == combine(date, av.end_time)
             IN  generate_slots(start_time, end_time,
                                av.slot_duration_minutes, t,
                                existing_appointments(t, start_time, end_time))

\* the view creating default working hours for a tailor it finds none for
get_availability_default_hours(t, b, date) ==
    /\ last = NoCall
    /\ last' = [Response("get_availability",
                         get_availability_code(t, b, date), "None")
                    EXCEPT !.args = <<t, b, date>>,
                           !.slots = get_availability_slots(t, b, date)]
    /\ tailor_availability' =
            IF availability_query(t, b, date) # {} THEN tailor_availability
            ELSE Append(tailor_availability,
                        [tailor_id |-> t, branch_id |-> b,
                         day_of_week |-> day_name(date), start_time |-> 600,
                         end_time |-> 660, slot_duration_minutes |-> 30,
                         is_active |-> TRUE])
    /\ UNCHANGED <<appointments, row_lock, reqs>>

get_availability(t, b, date) ==
    /\ last = NoCall
    /\ last' = [Response("get_availability",
                         get_availability_code(t, b, date), "None")
                    EXCEPT !.args = <<t, b, date>>,
                           !.slots = get_availability_slots(t, b, date)]
    /\ UNCHANGED <<appointments, row_lock, reqs, tailor_availability>>

(* --------------------------- specifications --------------------------- *)
\* Every handler of the appointments route, for the appointments of one
\* tailor, booked one request at a time.
Next ==
    \/ send_response
    \/ \E r \in OneRequest, u \in BookingUsers, t \in OneTailor, b \in BranchIds,
          sd \in Times, dm \in Durations :
            create_appointment_lock(r, u, t, b, sd, dm)
    \/ \E r \in OneRequest : create_appointment_check(r)
    \/ \E r \in OneRequest : create_appointment_commit(r)
    \/ \E r \in OneRequest, o \in NotifyOutcomes : create_appointment_notify(r, o)
    \/ \E u \in StatusCallers, id \in ApptIds, sd \in Times \cup {Unset},
          dm \in Durations \cup {Unset} : update_appointment(u, id, sd, dm)
    \/ \E u \in StatusCallers, id \in ApptIds, st \in AppointmentStatus :
            update_appointment_status(u, id, st)
    \/ \E u \in StatusCallers, id \in ApptIds, st \in StatusStrings :
            tailor_update_appointment_status(u, id, st)
    \/ \E u \in StatusCallers, id \in ApptIds, nd \in Times :
            reschedule_appointment(u, id, nd)
    \/ \E u \in StatusCallers, id \in ApptIds, reason \in Reasons :
            cancel_appointment(u, id, reason)

Spec == Init /\ [][Next]_vars

\* Booking and cancelling, for two tailors.
NextBooking ==
    \/ send_response
    \/ \E r \in ReqIds, u \in BookingUsers, t \in Tailors, b \in BranchIds,
          sd \in Times, dm \in Durations :
            create_appointment_lock(r, u, t, b, sd, dm)
    \/ \E r \in ReqIds : create_appointment_check(r)
    \/ \E r \in ReqIds : create_appointment_commit(r)
    \/ \E r \in ReqIds, o \in NotifyOutcomes : create_appointment_notify(r, o)
    \/ \E u \in Callers, id \in ApptIds, reason \in Reasons :
            cancel_appointment(u, id, reason)

SpecBooking == Init /\ [][NextBooking]_vars

\* Booking one request at a time, status changes and cancelling for one
\* tailor, beside that tailor's Monday working hours and the availability
\* view.
NextAvailability ==
    \/ send_response
    \/ \E r \in OneRequest, u \in BookingUsers, t \in OneTailor, b \in BranchIds,
          sd \in Times, dm \in Durations :
            create_appointment_lock(r, u, t, b, sd, dm)
    \/ \E r \in OneRequest : create_appointment_check(r)
    \/ \E r \in OneRequest : create_appointment_commit(r)
    \/ \E r \in OneRequest, o \in NotifyOutcomes : create_appointment_notify(r, o)
    \/ \E u \in Callers, id \in ApptIds, st \in AppointmentStatus :
            update_appointment_status(u, id, st)
    \/ \E u \in Callers, id \in ApptIds, reason \in Reasons :
            cancel_appointment(u, id, reason)
    \/ \E u \in Admins \cup Customers, t \in OneTailor, b \in BranchIds,
          day \in {"monday"}, st \in StartTimes, et \in EndTimes,
          sdm \in SlotDurations :
            create_tailor_availability(u, t, b, day, st, et, sdm)
    \/ \E t \in Tailors, b \in BranchIds, date \in Dates :
            get_availability(t, b, date)

SpecAvailability == Init /\ [][NextAvailability]_vars

\* The three handlers that write the working hours, and the availability
\* view, with no appointment booked.
NextSchedule ==
    \/ send_response
    \/ \E u \in Admins \cup BookingUsers, t \in Tailors, b \in BranchIds,
          day \in DaysOfWeek, st \in StartTimes, et \in EndTimes,
          sdm \in SlotDurations :
            create_tailor_availability(u, t, b, day, st, et, sdm)
    \/ \E u \in Admins \cup BookingUsers, id \in 1..MaxAvailability,
          upd \in AvailabilityUpdates :
            update_tailor_availability(u, id, upd)
    \/ \E u \in OneTailor \cup BookingUsers, settings \in SettingsLists :
            bulk_update_tailor_availability(u, settings)
    \/ \E t \in Tailors, b \in BranchIds, date \in Dates :
            get_availability(t, b, date)

SpecSchedule == Init /\ [][NextSchedule]_vars

\* Booking with the notification call and its completion as two steps. The
\* event loop runs every step of a handler that is ready to run; when, and
\* whether, the notification collaborator completes is not the handler's.
NextNotify ==
    \/ send_response
    \/ \E r \in OneRequest, u \in BookingUsers, t \in OneTailor, b \in BranchIds,
          sd \in Times, dm \in Durations :
            create_appointment_lock(r, u, t, b, sd, dm)
    \/ \E r \in OneRequest : create_appointment_check(r)
    \/ \E r \in OneRequest : create_appointment_commit(r)
    \/ \E r \in OneRequest : create_appointment_await(r)
    \/ \E r \in OneRequest, o \in NotifyOutcomes :
            create_appointment_return(r, o)
    \/ \E u \in Callers, id \in ApptIds, reason \in Reasons :
            cancel_appointment(u, id, reason)

SpecNotify ==
    /\ Init
    /\ [][NextNotify]_vars
    /\ WF_vars(send_response)
    /\ WF_vars(\E r \in OneRequest : create_appointment_check(r))
    /\ WF_vars(\E r \in OneRequest : create_appointment_commit(r))
    /\ WF_vars(\E r \in OneRequest : create_appointment_await(r))

\* Booking and cancelling for one tailor beside working hours that begin at
\* or after the earliest booking, and the Monday availability view.
NextView ==
    \/ send_response
    \/ \E r \in OneRequest, u \in BookingUsers, t \in OneTailor, b \in BranchIds,
          sd \in Times, dm \in Durations :
            create_appointment_lock(r, u, t, b, sd, dm)
    \/ \E r \in OneRequest : create_appointment_check(r)
    \/ \E r \in OneRequest : create_appointment_commit(r)
    \/ \E r \in OneRequest, o \in NotifyOutcomes : create_appointment_notify(r, o)
    \/ \E u \in Callers, id \in ApptIds, reason \in Reasons :
            cancel_appointment(u, id, reason)
    \/ \E u \in Admins, t \in OneTailor, b \in BranchIds, day \in {"monday"},
          st \in StartTimes \cup LateStartTimes, et \in EndTimes,
          sdm \in SlotDurations :
            create_tailor_availability(u, t, b, day, st, et, sdm)
    \/ \E t \in OneTailor, b \in BranchIds, date \in {0} :
            get_availability(t, b, date)

SpecView == Init /\ [][NextView]_vars

(* ------------------------------- claims ------------------------------- *)
\* what the specification calls a live appointment, an appointment's
\* half-open interval, and the overlap of two half-open intervals
IsLive(a) == a.status \in {"pending", "confirmed", "in_progress"}
EndOf(a) == a.scheduled_date + a.duration_minutes
Overlap(s1, e1, s2, e2) == s1 < e2 /\ s2 < e1
RowIds == 1..Len(appointments)

\* the live appointments of tailor t, other than row `but`, that overlap
\* [s, e)
LiveOverlapping(t, s, e, but) ==
    {i \in RowIds \ {but} :
        /\ appointments[i].tailor_id = t
        /\ IsLive(appointments[i])
        /\ Overlap(s, e, appointments[i].scheduled_date, EndOf(appointments[i]))}

\* C1: no two live appointments of the same tailor have overlapping
\* intervals [scheduled_date, scheduled_date + duration_minutes).
C1_NoLiveOverlap ==
    \A i \in RowIds :
        IsLive(appointments[i]) =>
            LiveOverlapping(appointments[i].tailor_id,
                            appointments[i].scheduled_date,
                            EndOf(appointments[i]), i) = {}

\* C2: of two create_appointment requests for the same tailor and the same
\* scheduled_date exactly one succeeds and the other is answered 409: a
\* conflict check that passed stays true until its insert is committed, no
\* two live appointments of a tailor share a scheduled_date, every answer
\* is the 201 or the 409, and a request is answered 409 exactly when a live
\* appointment of the tailor at its scheduled_date is committed.
C2_CheckAndInsertAtomic ==
    /\ [](\A r \in ReqIds :
            reqs[r].pc = "checked" =>
                ~\E i \in RowIds :
                    /\ appointments[i].tailor_id = reqs[r].tailor_id
                    /\ appointments[i].scheduled_date = reqs[r].scheduled_date
                    /\ IsLive(appointments[i]))
    /\ [](\A i, j \in RowIds :
            /\ i # j
            /\ appointments[i].tailor_id = appointments[j].tailor_id
            /\ appointments[i].scheduled_date = appointments[j].scheduled_date
            => ~(IsLive(appointments[i]) /\ IsLive(appointments[j])))
    /\ [](last.op = "create_appointment" => last.code \in {201, 409})
    /\ [][\A r \in ReqIds :
            (reqs[r].pc = "locked" /\ reqs'[r].pc # "locked") =>
                ((last'.op = "create_appointment" /\ last'.code = 409)
                 <=> \E i \in RowIds :
                        /\ appointments[i].tailor_id = reqs[r].tailor_id
                        /\ appointments[i].scheduled_date
                                = reqs[r].scheduled_date
                        /\ IsLive(appointments[i]))]_vars

\* two requests for one slot in flight together: one has committed its row,
\* the other holds the lock and is about to find that row
C2_Witness ==
    \E r1, r2 \in ReqIds :
        /\ reqs[r1].pc = "committed"
        /\ reqs[r2].pc = "locked"
        /\ appointments[reqs[r1].new_id].tailor_id = reqs[r2].tailor_id
        /\ appointments[reqs[r1].new_id].scheduled_date = reqs[r2].scheduled_date
        /\ IsLive(appointments[reqs[r1].new_id])

\* C3: the conflict check of create_appointment rejects the request with
\* 409 exactly when its interval overlaps a live appointment of the tailor.
C3_ConflictIffOverlap ==
    [][\A r \in ReqIds :
        (reqs[r].pc = "locked" /\ reqs'[r].pc # "locked") =>
            ((last'.op = "create_appointment" /\ last'.code = 409)
             <=> LiveOverlapping(reqs[r].tailor_id, reqs[r].scheduled_date,
                                 reqs[r].scheduled_date
                                    + reqs[r].duration_minutes, 0) # {})]_vars

\* C4: rescheduling a pending or confirmed appointment onto the interval
\* of another live appointment of its tailor is rejected with 409 and
\* changes nothing.
C4_RescheduleConflictRejected ==
    [][\A u \in UserIds, id \in ApptIds, nd \in Times :
        (/\ Exists(id)
         /\ appointments[id].status \in {"pending", "confirmed"}
         /\ LiveOverlapping(appointments[id].tailor_id, nd,
                            nd + appointments[id].duration_minutes, id) # {}
         /\ reschedule_appointment(u, id, nd))
        => (/\ reschedule_appointment_code(u, id, nd) = 409
            /\ appointments' = appointments)]_vars

\* C5: an appointment that is not pending, confirmed or in_progress never
\* makes create_appointment reject a request and never makes
\* get_availability report a slot as taken: a rejection has a live
\* appointment of the tailor at the requested scheduled_date behind it, and
\* a slot with is_available false has a live appointment of the tailor
\* overlapping it.
C5_OnlyLiveAppointmentsBlock ==
    /\ [][\A r \in ReqIds :
            (/\ reqs[r].pc = "locked"
             /\ reqs'[r].pc = "idle")
            => \E i \in RowIds :
                    /\ appointments[i].tailor_id = reqs[r].tailor_id
                    /\ appointments[i].scheduled_date = reqs[r].scheduled_date
                    /\ IsLive(appointments[i])]_vars
    /\ [](\A t \in Tailors, b \in BranchIds, date \in Dates :
            LET slots == get_availability_slots(t, b, date)
            IN  \A k \in 1..Len(slots) :
                    ~slots[k].is_available =>
                        LiveOverlapping(t, slots[k].start_time,
                                        slots[k].end_time, 0) # {})

\* a cancelled appointment at a slot that get_availability reports free and
\* that a new request has just passed the conflict check for
C5_Witness ==
    \E i \in RowIds, r \in ReqIds :
        /\ appointments[i].status = "cancelled"
        /\ reqs[r].pc = "checked"
        /\ reqs[r].tailor_id = appointments[i].tailor_id
        /\ reqs[r].scheduled_date = appointments[i].scheduled_date
        /\ LET slots == get_availability_slots(appointments[i].tailor_id, 1, 0)
           IN  \E k \in 1..Len(slots) :
                    /\ slots[k].start_time = appointments[i].scheduled_date
                    /\ slots[k].is_available

\* C6: a create_appointment that ends in the conflict response has written
\* nothing: the appointments table is the one before the rejected request.
C6_ConflictWritesNothing ==
    [][(last = NoCall /\ last'.op = "create_appointment" /\ last'.code = 409)
        => appointments' = appointments]_vars

C6_Witness ==
    /\ last.op = "create_appointment"
    /\ last.code = 409
    /\ Len(appointments) >= 1

\* C7: of the steps of a create_appointment request only its commit
\* changes the table, and it adds exactly one row: pending, with the
\* request's customer, tailor, branch, scheduled_date and duration; every
\* existing row is left as it was.
C7_CreateAddsOnePendingRow ==
    [][\A r \in ReqIds :
        reqs'[r] # reqs[r] =>
            IF reqs[r].pc = "checked"
            THEN /\ Len(appointments') = Len(appointments) + 1
                 /\ \A i \in RowIds : appointments'[i] = appointments[i]
                 /\ LET row == appointments'[Len(appointments')]
                    IN  /\ row.status = "pending"
                        /\ row.customer_id = reqs[r].user
                        /\ row.tailor_id = reqs[r].tailor_id
                        /\ row.branch_id = reqs[r].branch_id
                        /\ row.scheduled_date = reqs[r].scheduled_date
                        /\ row.duration_minutes = reqs[r].duration_minutes
                        /\ reqs'[r].new_id = Len(appointments')
            ELSE appointments' = appointments]_vars

\* a second booking has just been committed beside an existing row
C7_Witness ==
    \E r \in ReqIds :
        /\ reqs[r].pc = "committed"
        /\ reqs[r].new_id = 2
        /\ appointments[2].status = "pending"

C9_CancelOutsideGuardRejected ==
    /\ [](\A u \in UserIds, id \in RowIds :
            appointments[id].status \notin {"pending", "confirmed"} =>
                /\ cancel_appointment_code(u, id, "reason") = 400
                /\ cancel_appointment_rows(u, id, "reason") = appointments)
    /\ [][(last = NoCall /\ last'.op = "cancel_appointment")
            => (last'.code = 400 /\ appointments' = appointments)]_vars

\* a cancellation of a completed appointment has just been refused, and
\* the row is as it was: completed, never cancelled
C9_Witness ==
    /\ last.op = "cancel_appointment"
    /\ last.code = 400
    /\ \E id \in RowIds :
            /\ appointments[id].status = "completed"
            /\ appointments[id].cancellation_reason = "None"
            /\ appointments[id].cancelled_at = "None"

\* C10: reschedule_appointment on an appointment that is neither pending
\* nor confirmed answers 400, which is not the 409 of a booking conflict,
\* and changes no row; a 400 answer never comes with a changed table.
C10_RescheduleOutsideGuardRejected ==
    /\ [](\A u \in UserIds, id \in RowIds, nd \in Times :
            appointments[id].status \notin {"pending", "confirmed"} =>
                /\ reschedule_appointment_code(u, id, nd) = 400
                /\ reschedule_appointment_code(u, id, nd) # 409
                /\ reschedule_appointment_rows(u, id, nd) = appointments)
    /\ [][(last = NoCall /\ last'.op = "reschedule_appointment")
            => (last'.code = 400 /\ appointments' = appointments)]_vars

\* a reschedule of a cancelled appointment has just been refused, and the
\* row has never been rescheduled
C10_Witness ==
    /\ last.op = "reschedule_appointment"
    /\ last.code = 400
    /\ \E id \in RowIds :
            /\ appointments[id].status = "cancelled"
            /\ appointments[id].reschedule_count = 0

\* C11: completed, cancelled and no_show are terminal: no step changes the
\* status of an appointment that is in one of them.
C11_TerminalStatusesStay ==
    [][\A id \in RowIds :
        appointments[id].status \in {"completed", "cancelled", "no_show"}
            => appointments'[id].status = appointments[id].status]_vars

\* C12: update_appointment_status of the appointments route changes the
\* table only for the appointment's tailor of record, an admin or staff:
\* called by anyone else it leaves every row as it was.
C12_OnlyTailorOfRecordSetsStatus ==
    [][\A u \in UserIds, id \in ApptIds, st \in AppointmentStatus :
        (/\ Exists(id)
         /\ ~(u = appointments[id].tailor_id \/ u \in Admins \/ u \in Staff)
         /\ update_appointment_status(u, id, st))
        => appointments' = appointments]_vars

\* C13: an appointment whose status is completed has completed_at set.
C13_CompletedHasCompletedAt ==
    \A id \in RowIds :
        appointments[id].status = "completed"
            => appointments[id].completed_at # "None"

\* C14: an appointment whose status is cancelled has cancelled_at set and
\* a cancellation_reason that is not empty.
C14_CancelledHasStampAndReason ==
    \A id \in RowIds :
        appointments[id].status = "cancelled" =>
            /\ appointments[id].cancelled_at # "None"
            /\ appointments[id].cancellation_reason \notin {"None", ""}

\* the active working-hours rows behind a get_availability response, and
\* the fields of the request that got it
ActiveRows(t, b, date) ==
    {k \in 1..Len(tailor_availability) :
        /\ tailor_availability[k].tailor_id = t
        /\ tailor_availability[k].branch_id = b
        /\ tailor_availability[k].day_of_week
                = (IF date = 0 THEN "monday" ELSE "tuesday")
        /\ tailor_availability[k].is_active}
AnsweredRows == ActiveRows(last.args[1], last.args[2], last.args[3])
DayStart == last.args[3] * 1440

\* C15: every slot get_availability returns lies inside the working
\* window: no slot ends after the window's end, so that a last, partial
\* slot is left out.
C15_SlotsInsideWindow ==
    last.op = "get_availability" =>
        \A w \in AnsweredRows, k \in 1..Len(last.slots) :
            last.slots[k].end_time
                <= DayStart + tailor_availability[w].end_time

\* C16: the slots get_availability returns are back-to-back and ordered:
\* a window that is not empty gives a first slot starting at the window's
\* start, every slot is slot_duration_minutes long, each next slot starts
\* where the previous one ended, and no two slots overlap.
C16_SlotsBackToBack ==
    (last.op = "get_availability" /\ last.code = 200) =>
        \A w \in AnsweredRows :
            LET row == tailor_availability[w]
                slots == last.slots
            IN  /\ row.start_time < row.end_time => Len(slots) >= 1
                /\ Len(slots) >= 1 =>
                        slots[1].start_time = DayStart + row.start_time
                /\ \A k \in 1..Len(slots) :
                        slots[k].end_time - slots[k].start_time
                            = row.slot_duration_minutes
                /\ \A k \in 1..(Len(slots) - 1) :
                        slots[k + 1].start_time = slots[k].end_time
                /\ \A j, k \in 1..Len(slots) :
                        j # k => ~Overlap(slots[j].start_time,
                                          slots[j].end_time,
                                          slots[k].start_time,
                                          slots[k].end_time)

\* a response of two slots
C16_Witness ==
    /\ last.op = "get_availability"
    /\ last.code = 200
    /\ AnsweredRows # {}
    /\ Len(last.slots) = 2
    /\ last.slots[2].start_time = last.slots[1].end_time

\* C17: a working window shorter than one slot gives no slot.
C17_ShortWindowNoSlots ==
    (last.op = "get_availability" /\ last.code = 200) =>
        \A w \in AnsweredRows :
            LET row == tailor_availability[w]
            IN  (row.slot_duration_minutes <= 0
                 \/ row.end_time - row.start_time
                        < row.slot_duration_minutes)
                => last.slots = <<>>

\* C18: at most one active working-hours row per tailor, branch and day of
\* the week, so that the lookup of get_availability never finds two.
C18_OneActiveRowPerDay ==
    /\ \A j, k \in 1..Len(tailor_availability) :
            (/\ j # k
             /\ tailor_availability[j].is_active
             /\ tailor_availability[k].is_active
             /\ tailor_availability[j].tailor_id
                    = tailor_availability[k].tailor_id
             /\ tailor_availability[j].branch_id
                    = tailor_availability[k].branch_id)
            => tailor_availability[j].day_of_week
                    # tailor_availability[k].day_of_week
    /\ last.op = "get_availability" => last.code = 200

\* C19: asked about a tailor, branch and weekday with no working-hours row,
\* or with only rows that are not active, get_availability answers 200 with
\* an empty slot list.
C19_OffDayIsEmptyNotError ==
    (last.op = "get_availability" /\ AnsweredRows = {}) =>
        (last.code = 200 /\ last.slots = <<>>)

\* the answer for a day whose only row has been switched off
C19_Witness ==
    /\ last.op = "get_availability"
    /\ last.code = 200
    /\ last.slots = <<>>
    /\ \E k \in 1..Len(tailor_availability) :
            /\ tailor_availability[k].tailor_id = last.args[1]
            /\ tailor_availability[k].branch_id = last.args[2]
            /\ tailor_availability[k].day_of_week
                    = (IF last.args[3] = 0 THEN "monday" ELSE "tuesday")
            /\ ~tailor_availability[k].is_active
            /\ tailor_availability[k].start_time
                    < tailor_availability[k].end_time

\* the live appointments of the answered tailor that touch slot [s, e) at
\* an endpoint
Touching(s, e) ==
    {i \in RowIds :
        /\ appointments[i].tailor_id = last.args[1]
        /\ IsLive(appointments[i])
        /\ (appointments[i].scheduled_date = e \/ EndOf(appointments[i]) = s)}

\* C20: a slot that a live appointment only touches (the slot ends where
\* the appointment starts, or starts where it ends), and that no live
\* appointment overlaps, is reported available.
C20_TouchingSlotIsAvailable ==
    last.op = "get_availability" =>
        \A k \in 1..Len(last.slots) :
            (/\ Touching(last.slots[k].start_time, last.slots[k].end_time) # {}
             /\ LiveOverlapping(last.args[1], last.slots[k].start_time,
                                last.slots[k].end_time, 0) = {})
            => last.slots[k].is_available

\* a slot reported free that ends where a live appointment starts
C20_Witness ==
    /\ last.op = "get_availability"
    /\ \E k \in 1..Len(last.slots), i \in RowIds :
            /\ i \in Touching(last.slots[k].start_time, last.slots[k].end_time)
            /\ appointments[i].scheduled_date = last.slots[k].end_time
            /\ last.slots[k].is_available

\* C21: get_availability has no side effects and is idempotent: a call
\* changes no appointment row and no working-hours row, and the same call
\* made again on the tables it leaves behind gives the same code and the
\* same slot list.
C21_GetAvailabilityReadOnly ==
    [][\A t \in Tailors, b \in BranchIds, date \in Dates :
        (/\ last = NoCall
         /\ last'.op = "get_availability"
         /\ last'.args = <<t, b, date>>)
        => /\ appointments' = appointments
           /\ tailor_availability' = tailor_availability
           /\ last'.code = get_availability_code(t, b, date)'
           /\ last'.slots = get_availability_slots(t, b, date)']_vars

\* a view over booked working hours: a slot list with a taken slot
C21_Witness ==
    /\ last.op = "get_availability"
    /\ Len(appointments) > 0
    /\ \E k \in 1..Len(last.slots) : ~last.slots[k].is_available
    /\ \E k \in 1..Len(last.slots) : last.slots[k].is_available

\* C22: booking requests for different tailors are independent and those
\* for one tailor are serialized: a request for a tailor that no in-flight
\* request is booking can take its lock whatever locks other tailors'
\* requests hold, a request is rejected only when a live appointment of
\* its own tailor exists, and no two requests for the same tailor are
\* between lock and commit together.
C22_TailorsIndependent ==
    /\ [](\A r \in ReqIds, t \in Tailors :
            (/\ last = NoCall
             /\ reqs[r].pc = "idle"
             /\ Len(appointments) + Cardinality(InFlight) < MaxAppts
             /\ \A r2 \in InFlight : reqs[r2].tailor_id # t)
            => ENABLED create_appointment_lock(r, 1, t, 1, 600, 30))
    /\ [][\A r \in ReqIds :
            (/\ reqs[r].pc = "locked"
             /\ reqs'[r].pc = "idle"
             /\ last'.op = "create_appointment"
             /\ last'.code # HTTP_201_CREATED)
            => \E i \in RowIds :
                    /\ appointments[i].tailor_id = reqs[r].tailor_id
                    /\ IsLive(appointments[i])]_vars
    /\ [](\A r1, r2 \in InFlight :
            r1 # r2 => reqs[r1].tailor_id # reqs[r2].tailor_id)

\* two requests between lock and commit at once, one for each tailor
C22_Witness ==
    /\ InFlight = ReqIds
    /\ reqs[1].tailor_id # reqs[2].tailor_id

\* C23: the confirmation notification does not block the booking: once the
\* appointment is committed, create_appointment eventually returns its
\* success response, whether or not the notification collaborator ever
\* completes.
C23_CommittedEventuallyReturns ==
    \A r \in OneRequest :
        (reqs[r].pc = "committed")
            ~> (last.op = "create_appointment"
                    /\ last.code = HTTP_201_CREATED)

\* C24: after a successful reschedule_appointment the appointment is a
\* live (pending or confirmed) booking at its new time: the conflict query
\* of a create_appointment for the same tailor at that time finds it, and
\* the availability view's query over an interval holding that time
\* fetches it.
C24_RescheduledStaysLive ==
    [][\A u \in Callers, id \in ApptIds, nd \in Times :
        (/\ appointments' # appointments
         /\ reschedule_appointment_code(u, id, nd) = HTTP_200_OK
         /\ reschedule_appointment(u, id, nd))
        => /\ appointments'[id].status \in {"pending", "confirmed"}
           /\ id \in conflict_query(appointments[id].tailor_id, nd)'
           /\ id \in existing_appointments(appointments[id].tailor_id,
                                           nd, nd + 1)']_vars

\* C25: a successful reschedule_appointment changes the existing row in
\* place: the table keeps its length, the row gets the new scheduled_date
\* and a reschedule_count one higher, its customer_id, tailor_id, branch_id
\* and duration_minutes stay, and every other row is unchanged.
C25_RescheduleInPlace ==
    [][appointments' # appointments =>
        \A id \in RowIds, nd \in Times, u \in Callers :
            (/\ reschedule_appointment_code(u, id, nd) = HTTP_200_OK
             /\ reschedule_appointment(u, id, nd))
            => /\ Len(appointments') = Len(appointments)
               /\ appointments'[id].scheduled_date = nd
               /\ appointments'[id].reschedule_count
                        = appointments[id].reschedule_count + 1
               /\ appointments'[id].customer_id = appointments[id].customer_id
               /\ appointments'[id].tailor_id = appointments[id].tailor_id
               /\ appointments'[id].branch_id = appointments[id].branch_id
               /\ appointments'[id].duration_minutes
                        = appointments[id].duration_minutes
               /\ \A j \in RowIds : j # id
                        => appointments'[j] = appointments[j]]_vars

\* a rescheduled row, moved away from another row's time, beside that row
C25_Witness ==
    /\ Len(appointments) = 2
    /\ \E id \in RowIds :
            /\ appointments[id].reschedule_count = 1
            /\ appointments[id].status = "rescheduled"
            /\ \A j \in RowIds : j # id =>
                    /\ appointments[j].reschedule_count = 0
                    /\ appointments[j].scheduled_date
                            # appointments[id].scheduled_date

\* C26: in every slot list get_availability returns, a slot is reported
\* unavailable exactly when some live appointment of that tailor overlaps
\* the slot's half-open interval, an appointment that starts before the
\* working window and runs into it included.
C26_UnavailableIffLiveOverlap ==
    (last.op = "get_availability" /\ last.code = HTTP_200_OK) =>
        \A k \in 1..Len(last.slots) :
            ~last.slots[k].is_available
                <=> LiveOverlapping(last.args[1], last.slots[k].start_time,
                                    last.slots[k].end_time, 0) # {}

\* C27: the availability view and the booking guard agree: for every slot
\* of a returned list, a create_appointment for that tailor at the slot's
\* start is rejected by the conflict query when the slot is reported
\* unavailable and passes it when the slot is reported available.
C27_ViewAgreesWithGuard ==
    (last.op = "get_availability" /\ last.code = HTTP_200_OK) =>
        \A k \in 1..Len(last.slots) :
            ~last.slots[k].is_available
                <=> conflict_query(last.args[1],
                                   last.slots[k].start_time) # {}

\* C28: every appointment create_appointment writes lies inside an active
\* working window of its tailor, branch and weekday.
C28_CreatedInsideWorkingWindow ==
    [][Len(appointments') > Len(appointments) =>
        LET a == appointments'[Len(appointments')]
            date == a.scheduled_date \div MinutesPerDay
        IN  \E k \in availability_query(a.tailor_id, a.branch_id, date) :
                /\ combine(date, tailor_availability[k].start_time)
                        <= a.scheduled_date
                /\ a.scheduled_date + a.duration_minutes
                        <= combine(date, tailor_availability[k].end_time)]_vars

\* C29: reschedule_count counts the changes of scheduled_date: whenever a
\* step changes an appointment's scheduled_date it raises that
\* appointment's reschedule_count by exactly 1, and the appointment was
\* pending or confirmed.
C29_RescheduleCountCountsMoves ==
    [][\A id \in RowIds :
        appointments'[id].scheduled_date # appointments[id].scheduled_date
        => /\ appointments'[id].reschedule_count
                    = appointments[id].reschedule_count + 1
           /\ appointments[id].status \in {"pending", "confirmed"}]_vars

\* C30: update_appointment (PUT), reschedule_appointment and
\* cancel_appointment change nothing when the caller is neither the
\* appointment's customer, nor its tailor of record, nor an admin or staff
\* user.
C30_OnlyPartiesChangeAppointment ==
    [][\A u \in UserIds, id \in ApptIds :
        (/\ Exists(id)
         /\ u # appointments[id].customer_id
         /\ u # appointments[id].tailor_id
         /\ u \notin Admins \cup Staff
         /\ \/ \E sd \in Times \cup {Unset}, dm \in Durations \cup {Unset} :
                    update_appointment(u, id, sd, dm)
            \/ \E nd \in Times : reschedule_appointment(u, id, nd)
            \/ \E reason \in Reasons : cancel_appointment(u, id, reason))
        => appointments' = appointments]_vars

====
